---- MODULE Spec2Model ----
(***************************************************************************)
(* Model of dflow/slurm.py: the three-phase rewriting of a template by     *)
(* SlurmJobTemplate.render, the manifest built by SlurmJob.get_manifest,   *)
(* and the submission script built by SlurmRemoteExecutor.run.             *)
(*                                                                         *)
(* Python strings are TLA+ strings (\o, Len, SubSeq), an ordered dict is a *)
(* sequence of [key, val] entries with unique keys, None is <<>> and a     *)
(* present optional value v is <<v>>.  The manifest is kept as the mapping *)
(* that get_manifest hands to the YAML serialiser.                         *)
(***************************************************************************)
EXTENDS Integers, Sequences, FiniteSets, TLC

VARIABLES
    pc,         \* "init" | "rendered": position of the render call
    template,   \* the template handed to SlurmJobTemplate.render
    executor,   \* the SlurmJobTemplate configuration (self)
    composite,  \* the Steps template returned by render (<<>> before)
    inst,       \* per pipeline instance: the engine's run of the composite
    rexec,      \* the SlurmRemoteExecutor configuration (self)
    script,     \* the command list of the script returned by run
    sh          \* the shell executing that script

vars == <<pc, template, executor, composite, inst, rexec, script, sh>>

renderVars == <<pc, template, executor, composite, inst>>
runVars == <<rexec, script, sh>>

----------------------------------------------------------------------------
(* Bounds *)

MaxInPars == 2
MaxInArts == 2
MaxOutPars == 2
MaxOutArts == 1
NumPods == 4

----------------------------------------------------------------------------
(* Python values *)

NoneVal == <<>>
Some(v) == <<v>>

Min(a, b) == IF a < b THEN a ELSE b

\* s[:n]
Prefix(s, n) == SubSeq(s, 1, Min(n, Len(s)))

\* s[n:]
Suffix(s, n) == SubSeq(s, n + 1, Len(s))

\* t in s
Contains(s, t) ==
    \E i \in 1..(Len(s) - Len(t) + 1) : SubSeq(s, i, i + Len(t) - 1) = t

\* s.rfind("/") + 1
RFindSlash(s) ==
    LET hits == {i \in 1..Len(s) : SubSeq(s, i, i) = "/"}
    IN  IF hits = {} THEN 0 ELSE CHOOSE i \in hits : \A j \in hits : j <= i

AllSlashes(s) == \A i \in 1..Len(s) : SubSeq(s, i, i) = "/"

RECURSIVE RStripSlash(_)
RStripSlash(s) ==
    IF Len(s) > 0 /\ SubSeq(s, Len(s), Len(s)) = "/"
    THEN RStripSlash(SubSeq(s, 1, Len(s) - 1))
    ELSE s

\* os.path.dirname
dirname(p) ==
    LET head == Prefix(p, RFindSlash(p))
    IN  IF Len(head) > 0 /\ ~AllSlashes(head) THEN RStripSlash(head) ELSE head

\* " ".join(words)
RECURSIVE Join(_)
Join(words) ==
    IF Len(words) = 0 THEN ""
    ELSE IF Len(words) = 1 THEN words[1]
    ELSE words[1] \o " " \o Join(Tail(words))

(* Ordered dicts *)

Keys(d) == {d[i].key : i \in 1..Len(d)}

KeySeq(d) == [i \in 1..Len(d) |-> d[i].key]

Get(d, k) == (CHOOSE i \in 1..Len(d) : d[i].key = k)

Lookup(d, k) == d[Get(d, k)].val

\* d[k] = v
DictSet(d, k, v) ==
    IF k \in Keys(d)
    THEN [i \in 1..Len(d) |-> IF d[i].key = k THEN [key |-> k, val |-> v] ELSE d[i]]
    ELSE Append(d, [key |-> k, val |-> v])

Distinct(s) == \A i, j \in 1..Len(s) : s[i] = s[j] => i = j

SeqsUpTo(S, n) == UNION {[1..k -> S] : k \in 0..n}

----------------------------------------------------------------------------
(* dflow.io declarations and the Kubernetes objects, as slurm.py builds them *)

InputParameter(name, value) == [name |-> name, value |-> value]

InputArtifact(name, path) == [name |-> name, path |-> path]

OutputParameter(name, value, value_from_path, value_from_parameter) ==
    [name |-> name, value |-> value, value_from_path |-> value_from_path,
     value_from_parameter |-> value_from_parameter]

OutputArtifact(name, path, from) == [name |-> name, path |-> path, from |-> from]

V1Volume(name, path) ==
    [name |-> name, host_path |-> [path |-> path, type |-> "DirectoryOrCreate"]]

V1VolumeMount(name, mount_path) == [name |-> name, mount_path |-> mount_path]

EmptyIO == [parameters |-> <<>>, artifacts |-> <<>>]

ShellOPTemplate(name, image, scr, volumes, mounts) ==
    [name |-> name, image |-> Some(image), script |-> scr, volumes |-> volumes,
     mounts |-> mounts, resource |-> NoneVal, inputs |-> EmptyIO,
     outputs |-> EmptyIO]

ScriptOPTemplate(name, resource) ==
    [name |-> name, image |-> NoneVal, script |-> "", volumes |-> <<>>,
     mounts |-> <<>>, resource |-> Some(resource), inputs |-> EmptyIO,
     outputs |-> EmptyIO]

Step(name, tmpl, parameters, artifacts) ==
    [name |-> name, template |-> tmpl, parameters |-> parameters,
     artifacts |-> artifacts]

\* the reference a Step exposes for an output parameter of its template
StepOutputParameter(stepName, parName) ==
    "{{steps." \o stepName \o ".outputs.parameters." \o parName \o "}}"

StepOutputArtifact(stepName, artName) ==
    "{{steps." \o stepName \o ".outputs.artifacts." \o artName \o "}}"

InputParameterRef(parName) == "{{inputs.parameters." \o parName \o "}}"

PodNameRef == "{{pod.name}}"

----------------------------------------------------------------------------
(* The templates and executors the model ranges over *)

InParPool ==
    { [key |-> "n", val |-> InputParameter(NoneVal, Some("3"))],
      [key |-> "dflow_vol_path", val |-> InputParameter(NoneVal, NoneVal)] }

InArtPool ==
    { [key |-> "input.json", val |-> InputArtifact(NoneVal, "/in/input.json")],
      [key |-> "data", val |-> InputArtifact(NoneVal, "data.txt")] }

OutParPool ==
    { [key |-> "energy",
       val |-> OutputParameter(NoneVal, NoneVal, Some("/out/energy.txt"), NoneVal)],
      [key |-> "dflow_vol_path",
       val |-> OutputParameter(NoneVal, Some("done"), NoneVal, NoneVal)] }

OutArtPool ==
    { [key |-> "out.json", val |-> OutputArtifact(NoneVal, "/out/out.json", NoneVal)] }

Dicts(pool, n) == {d \in SeqsUpTo(pool, n) : Distinct(KeySeq(d))}

Templates ==
    { [name |-> "calc", command |-> <<"sh">>, script |-> "echo hi",
       inputs |-> [parameters |-> ip, artifacts |-> ia],
       outputs |-> [parameters |-> op, artifacts |-> oa]] :
      ip \in Dicts(InParPool, MaxInPars), ia \in Dicts(InArtPool, MaxInArts),
      op \in Dicts(OutParPool, MaxOutPars), oa \in Dicts(OutArtPool, MaxOutArts) }

DefaultWorkdir == "dflow/workflows/{{workflow.name}}/{{pod.name}}"

\* SlurmJobTemplate.__init__
SlurmJobTemplateInit(header, node_selector, remote_command) ==
    [header |-> header, node_selector |-> node_selector,
     prepare_image |-> "alpine:latest", collect_image |-> "alpine:latest",
     workdir |-> DefaultWorkdir, remote_command |-> remote_command]

Executors ==
    { SlurmJobTemplateInit("#SBATCH -N 1", NoneVal, NoneVal),
      SlurmJobTemplateInit("#SBATCH -N 1", Some([queue |-> "gpu"]), Some(<<"bash">>)) }

----------------------------------------------------------------------------
(* SlurmJob *)

\* SlurmJob.__init__ as render calls it (map_tmp_dir keeps its default)
SlurmJob(header, node_selector, prepare, results, workdir, remote_command) ==
    [header |-> header, action |-> "create",
     success_condition |-> "status.status == Succeeded",
     failure_condition |-> "status.status == Failed",
     node_selector |-> node_selector, prepare |-> prepare, results |-> results,
     map_tmp_dir |-> TRUE, workdir |-> workdir,
     remote_command |-> remote_command]

Stanza(name, opt) == IF opt # NoneVal THEN name :> opt[1] ELSE <<>>

\* SlurmJob.get_manifest: the mapping passed to yaml.dump
get_manifest(job, tmpl) ==
    LET remote_command == IF job.remote_command = NoneVal THEN tmpl.command
                          ELSE job.remote_command[1]
        map_cmd == IF job.map_tmp_dir THEN " | sed \"s#/tmp#$(pwd)/tmp#g\" "
                   ELSE ""
        batch == job.header \o "\nmkdir -p " \o job.workdir \o "\ncd "
                 \o job.workdir \o "\ncat <<EOF " \o map_cmd \o " | "
                 \o Join(remote_command) \o "\n" \o tmpl.script \o "\nEOF"
    IN  [apiVersion |-> "wlm.sylabs.io/v1alpha1", kind |-> "SlurmJob",
         metadata |-> [name |-> PodNameRef],
         spec |-> ("batch" :> batch)
                  @@ Stanza("nodeSelector", job.node_selector)
                  @@ Stanza("prepare", job.prepare)
                  @@ Stanza("results", job.results)]

----------------------------------------------------------------------------
(* SlurmJobTemplate.render *)

HasInputArtifacts(tmpl) == Len(tmpl.inputs.artifacts) > 0

HasOutputs(tmpl) ==
    Len(tmpl.outputs.parameters) > 0 \/ Len(tmpl.outputs.artifacts) > 0

\* the composite's name and its re-declared inputs
NewInputs(tmpl) ==
    [artifacts |->
        [i \in 1..Len(tmpl.inputs.artifacts) |->
            LET k == tmpl.inputs.artifacts[i].key
            IN  [key |-> k, val |-> InputArtifact(Some(k), NoneVal)]],
     parameters |->
        [i \in 1..Len(tmpl.inputs.parameters) |->
            LET k == tmpl.inputs.parameters[i].key
            IN  [key |-> k, val |-> InputParameter(Some(k), NoneVal)]]]

NewName(tmpl) == tmpl.name \o "-slurm"

\* PrepareScriptLines creating the artifact's own directory
PrepareScriptLinesMut(path) ==
    "mkdir -p " \o dirname(path) \o "\n"
    \o "cp -r " \o path \o " /workdir" \o path \o "\n"

PrepareScriptLines(path) ==
    "mkdir -p /workdir/" \o dirname(path) \o "\n"
    \o "cp -r " \o path \o " /workdir/" \o path \o "\n"

RECURSIVE PrepareScript(_)
PrepareScript(arts) ==
    IF Len(arts) = 0 THEN ""
    ELSE PrepareScriptLines(arts[1].val.path) \o PrepareScript(Tail(arts))

\* the loop over input parameter names that start with "dflow_"
RECURSIVE AddDflowParameters(_, _)
AddDflowParameters(d, pars) ==
    IF Len(pars) = 0 THEN d
    ELSE LET name == pars[1].key
             d1 == IF Prefix(name, 6) = "dflow_"
                   THEN DictSet(d, name,
                                InputParameter(NoneVal, Some(InputParameterRef(name))))
                   ELSE d
         IN  AddDflowParameters(d1, Tail(pars))

PodScopedPath == "/tmp/" \o PodNameRef

PrepareTemplate(self, tmpl) ==
    LET base == ShellOPTemplate(NewName(tmpl) \o "-prepare", self.prepare_image,
                                PrepareScript(tmpl.inputs.artifacts),
                                <<V1Volume("workdir", PodScopedPath)>>,
                                <<V1VolumeMount("workdir", "/workdir")>>)
    IN  [base EXCEPT
            !.inputs = [parameters |-> AddDflowParameters(<<>>, tmpl.inputs.parameters),
                        artifacts |-> tmpl.inputs.artifacts],
            !.outputs.parameters =
                DictSet(<<>>, "dflow_vol_path",
                        OutputParameter(NoneVal, Some(PodScopedPath), NoneVal, NoneVal))]

PrepareStep(self, tmpl) ==
    Step("slurm-prepare", PrepareTemplate(self, tmpl), <<>>,
         NewInputs(tmpl).artifacts)

\* PrepareStanza testing the input parameters instead of the input artifacts
PrepareStanzaMut(self, tmpl) ==
    IF Len(tmpl.inputs.parameters) > 0
    THEN Some([to |-> self.workdir,
               mount |-> [name |-> "workdir",
                          hostPath |-> [path |-> InputParameterRef("dflow_vol_path"),
                                        type |-> "DirectoryOrCreate"]]])
    ELSE NoneVal

PrepareStanza(self, tmpl) ==
    IF HasInputArtifacts(tmpl)
    THEN Some([to |-> self.workdir,
               mount |-> [name |-> "workdir",
                          hostPath |-> [path |-> InputParameterRef("dflow_vol_path"),
                                        type |-> "DirectoryOrCreate"]]])
    ELSE NoneVal

\* ResultsStanza mounting a path that is not pod-scoped
ResultsStanzaMut(self, tmpl) ==
    IF HasOutputs(tmpl)
    THEN Some([from |-> self.workdir \o "/workdir",
               mount |-> [name |-> "mnt",
                          hostPath |-> [path |-> "/tmp/workdir",
                                        type |-> "DirectoryOrCreate"]]])
    ELSE NoneVal

ResultsStanza(self, tmpl) ==
    IF HasOutputs(tmpl)
    THEN Some([from |-> self.workdir \o "/workdir",
               mount |-> [name |-> "mnt",
                          hostPath |-> [path |-> PodScopedPath,
                                        type |-> "DirectoryOrCreate"]]])
    ELSE NoneVal

\* RunInputParameters without the test of `prepare`
RunInputParametersMut(tmpl, prepare) ==
    DictSet(tmpl.inputs.parameters, "dflow_vol_path", InputParameter(NoneVal, NoneVal))

RunInputParameters(tmpl, prepare) ==
    IF prepare # NoneVal
    THEN DictSet(tmpl.inputs.parameters, "dflow_vol_path",
                 InputParameter(NoneVal, NoneVal))
    ELSE tmpl.inputs.parameters

\* RunOutputParameters without the test of `results`
RunOutputParametersMut(results) ==
    DictSet(<<>>, "dflow_vol_path",
            OutputParameter(NoneVal, Some(PodScopedPath), NoneVal, NoneVal))

RunOutputParameters(results) ==
    IF results # NoneVal
    THEN DictSet(<<>>, "dflow_vol_path",
                 OutputParameter(NoneVal, Some(PodScopedPath), NoneVal, NoneVal))
    ELSE <<>>

RunTemplate(self, tmpl) ==
    LET prepare == PrepareStanza(self, tmpl)
        results == ResultsStanza(self, tmpl)
        slurm_job == SlurmJob(self.header, self.node_selector, prepare, results,
                              self.workdir \o "/workdir", self.remote_command)
        base == ScriptOPTemplate(
                    NewName(tmpl) \o "-run",
                    [action |-> slurm_job.action,
                     success_condition |-> slurm_job.success_condition,
                     failure_condition |-> slurm_job.failure_condition,
                     manifest |-> get_manifest(slurm_job, tmpl)])
    IN  [base EXCEPT !.inputs.parameters = RunInputParameters(tmpl, prepare),
                     !.outputs.parameters = RunOutputParameters(results)]

\* RunParameters with the pass-through loop run after the wiring of the
\* prepare step's output
RECURSIVE PassThrough(_, _)
PassThrough(d, pars) ==
    IF Len(pars) = 0 THEN d
    ELSE PassThrough(DictSet(d, pars[1].key, InputParameterRef(pars[1].key)),
                     Tail(pars))

RunParametersMut(tmpl, prepare) ==
    PassThrough(IF prepare # NoneVal
                THEN DictSet(<<>>, "dflow_vol_path",
                             "{{steps.slurm-prepare.outputs.parameters.dflow_vol_path}}")
                ELSE <<>>,
                tmpl.inputs.parameters)

\* the arguments of the slurm-run step
RunParameters(tmpl, prepare) ==
    LET passed == [i \in 1..Len(tmpl.inputs.parameters) |->
                     LET k == tmpl.inputs.parameters[i].key
                     IN  [key |-> k, val |-> InputParameterRef(k)]]
    IN  IF prepare # NoneVal
        THEN DictSet(passed, "dflow_vol_path",
                     "{{steps.slurm-prepare.outputs.parameters.dflow_vol_path}}")
        ELSE passed

RunStep(self, tmpl) ==
    Step("slurm-run", RunTemplate(self, tmpl),
         RunParameters(tmpl, PrepareStanza(self, tmpl)), <<>>)

\* the shell's command-substitution quote (U+0060), which a TLA+ string
\* literal cannot hold
BackQuote == "<U+0060>"

CollectLine(path) ==
    "mkdir -p " \o BackQuote \o "dirname " \o path \o BackQuote
    \o " && cp -r /mnt/workdir/" \o path \o " " \o path \o "\n"

RECURSIVE CollectArtifactLines(_)
CollectArtifactLines(arts) ==
    IF Len(arts) = 0 THEN ""
    ELSE CollectLine(arts[1].val.path) \o CollectArtifactLines(Tail(arts))

RECURSIVE CollectParameterLines(_)
CollectParameterLines(pars) ==
    IF Len(pars) = 0 THEN ""
    ELSE (IF pars[1].val.value_from_path # NoneVal
          THEN CollectLine(pars[1].val.value_from_path[1]) ELSE "")
         \o CollectParameterLines(Tail(pars))

CollectScript(tmpl) ==
    CollectArtifactLines(tmpl.outputs.artifacts)
    \o CollectParameterLines(tmpl.outputs.parameters)

CollectTemplate(self, tmpl) ==
    LET base == ShellOPTemplate(NewName(tmpl) \o "-collect", self.collect_image,
                                CollectScript(tmpl),
                                <<V1Volume("mnt", InputParameterRef("dflow_vol_path"))>>,
                                <<V1VolumeMount("mnt", "/mnt")>>)
    IN  [base EXCEPT
            !.inputs.parameters =
                AddDflowParameters(
                    DictSet(<<>>, "dflow_vol_path", InputParameter(NoneVal, NoneVal)),
                    tmpl.inputs.parameters),
            !.outputs = [parameters |-> tmpl.outputs.parameters,
                         artifacts |-> tmpl.outputs.artifacts]]

CollectStep(self, tmpl) ==
    Step("slurm-collect", CollectTemplate(self, tmpl),
         DictSet(<<>>, "dflow_vol_path",
                 StepOutputParameter("slurm-run", "dflow_vol_path")),
         <<>>)

\* NewOutputs routed to the slurm-run step instead
NewOutputsMut(tmpl) ==
    IF HasOutputs(tmpl)
    THEN [artifacts |->
            [i \in 1..Len(tmpl.outputs.artifacts) |->
                LET k == tmpl.outputs.artifacts[i].key
                IN  [key |-> k,
                     val |-> OutputArtifact(Some(k), NoneVal,
                                            Some(StepOutputArtifact("slurm-run", k)))]],
          parameters |->
            [i \in 1..Len(tmpl.outputs.parameters) |->
                LET k == tmpl.outputs.parameters[i].key
                IN  [key |-> k,
                     val |-> OutputParameter(Some(k), NoneVal, NoneVal,
                                Some(StepOutputParameter("slurm-run", k)))]]]
    ELSE EmptyIO

\* the composite's outputs, routed to the slurm-collect step
NewOutputs(tmpl) ==
    IF HasOutputs(tmpl)
    THEN [artifacts |->
            [i \in 1..Len(tmpl.outputs.artifacts) |->
                LET k == tmpl.outputs.artifacts[i].key
                IN  [key |-> k,
                     val |-> OutputArtifact(Some(k), NoneVal,
                                            Some(StepOutputArtifact("slurm-collect", k)))]],
          parameters |->
            [i \in 1..Len(tmpl.outputs.parameters) |->
                LET k == tmpl.outputs.parameters[i].key
                IN  [key |-> k,
                     val |-> OutputParameter(Some(k), NoneVal, NoneVal,
                                Some(StepOutputParameter("slurm-collect", k)))]]]
    ELSE EmptyIO

\* render adding the collect step before the run step
renderMut(self, tmpl) ==
    [name |-> NewName(tmpl),
     inputs |-> NewInputs(tmpl),
     outputs |-> NewOutputs(tmpl),
     steps |-> (IF HasInputArtifacts(tmpl) THEN <<PrepareStep(self, tmpl)>> ELSE <<>>)
               \o (IF HasOutputs(tmpl) THEN <<CollectStep(self, tmpl)>> ELSE <<>>)
               \o <<RunStep(self, tmpl)>>]

render(self, tmpl) ==
    [name |-> NewName(tmpl),
     inputs |-> NewInputs(tmpl),
     outputs |-> NewOutputs(tmpl),
     steps |-> (IF HasInputArtifacts(tmpl) THEN <<PrepareStep(self, tmpl)>> ELSE <<>>)
               \o <<RunStep(self, tmpl)>>
               \o (IF HasOutputs(tmpl) THEN <<CollectStep(self, tmpl)>> ELSE <<>>)]

----------------------------------------------------------------------------
(* The host engine: one run of the composite per pipeline instance.  Each   *)
(* step gets its own pod; {{pod.name}}, {{inputs.parameters.X}} and         *)
(* {{steps.S.outputs.parameters.P}} are replaced by their values.           *)

Digit(i) == SubSeq("0123456789", i + 1, i + 1)

PodNames == {"calc-" \o Digit(i) : i \in 1..NumPods}

\* the two pipeline instances that run the composite
Instances == {"a", "b"}

\* s.replace(pat, rep): the leftmost occurrences, not overlapping
RECURSIVE ReplaceAll(_, _, _)
ReplaceAll(s, pat, rep) ==
    LET hits == {i \in 1..(Len(s) - Len(pat) + 1) :
                    SubSeq(s, i, i + Len(pat) - 1) = pat}
    IN  IF hits = {} THEN s
        ELSE LET i == CHOOSE h \in hits : \A g \in hits : h <= g
             IN  Prefix(s, i - 1) \o rep
                 \o ReplaceAll(Suffix(s, i + Len(pat) - 1), pat, rep)

\* env: a sequence of [key |-> placeholder, val |-> value]
RECURSIVE Resolve(_, _)
Resolve(s, env) ==
    IF Len(env) = 0 THEN s
    ELSE Resolve(ReplaceAll(s, env[1].key, env[1].val), Tail(env))

\* the value the workflow passes for input parameter X of the composite
WorkflowArgument(parName) == "arg-" \o parName

\* what the steps of the composite can refer to, after `done` has run
RECURSIVE StepsEnv(_, _)
StepsEnv(steps, done) ==
    IF Len(done) = 0 THEN <<>>
    ELSE [i \in 1..Len(done[1].outputs) |->
             [key |-> StepOutputParameter(steps[1].name, done[1].outputs[i].key),
              val |-> done[1].outputs[i].val]]
         \o StepsEnv(Tail(steps), Tail(done))

CompositeEnv(comp) ==
    [i \in 1..Len(comp.inputs.parameters) |->
        [key |-> InputParameterRef(comp.inputs.parameters[i].key),
         val |-> WorkflowArgument(comp.inputs.parameters[i].key)]]

\* the input parameters of a step's template: the step's argument where one
\* is passed, else the declared value
TemplateInputs(step, env) ==
    [i \in 1..Len(step.template.inputs.parameters) |->
        LET k == step.template.inputs.parameters[i].key
            decl == step.template.inputs.parameters[i].val
        IN  [key |-> InputParameterRef(k),
             val |-> IF k \in Keys(step.parameters)
                     THEN Resolve(Lookup(step.parameters, k), env)
                     ELSE IF decl.value # NoneVal THEN decl.value[1] ELSE ""]]

PodEnv(pod) == <<[key |-> PodNameRef, val |-> pod]>>

MountPath(manifest, stanza, env) ==
    IF stanza \in DOMAIN manifest.spec
    THEN Some(Resolve(manifest.spec[stanza].mount.hostPath.path, env))
    ELSE NoneVal

\* one step of the composite run in pod `pod`
RunPod(comp, done, pod) ==
    LET step == comp.steps[Len(done) + 1]
        tmpl == step.template
        env == TemplateInputs(step, StepsEnv(comp.steps, done) \o CompositeEnv(comp))
               \o PodEnv(pod)
    IN  [pod |-> pod,
         step |-> step.name,
         volume |-> IF Len(tmpl.volumes) > 0
                    THEN Some(Resolve(tmpl.volumes[1].host_path.path, env))
                    ELSE NoneVal,
         prepareMount |-> IF tmpl.resource # NoneVal
                          THEN MountPath(tmpl.resource[1].manifest, "prepare", env)
                          ELSE NoneVal,
         resultsMount |-> IF tmpl.resource # NoneVal
                          THEN MountPath(tmpl.resource[1].manifest, "results", env)
                          ELSE NoneVal,
         outputs |-> [i \in 1..Len(tmpl.outputs.parameters) |->
                        LET o == tmpl.outputs.parameters[i]
                        IN  [key |-> o.key,
                             val |-> IF o.val.value # NoneVal
                                     THEN Resolve(o.val.value[1], env)
                                     ELSE "file-content"]]]

----------------------------------------------------------------------------
(* SlurmRemoteExecutor *)

DefaultPort == 22
DefaultInterval == 3

\* "%s" % n for a natural number n
RECURSIVE Str(_)
Str(n) == IF n < 10 THEN Digit(n) ELSE Str(n \div 10) \o Digit(n % 10)

\* re.sub(" *#", "#", header): the spaces right before a "#" are dropped
RECURSIVE SubSpacesHash(_)
SubSpacesHash(header) ==
    IF Len(header) = 0 THEN ""
    ELSE LET spaces == CHOOSE n \in 0..Len(header) :
                          /\ \A i \in 1..n : SubSeq(header, i, i) = " "
                          /\ (n = Len(header) \/ SubSeq(header, n + 1, n + 1) # " ")
         IN  IF spaces < Len(header) /\ SubSeq(header, spaces + 1, spaces + 1) = "#"
             THEN "#" \o SubSpacesHash(Suffix(header, spaces + 1))
             ELSE IF spaces > 0
             THEN Prefix(header, spaces) \o SubSpacesHash(Suffix(header, spaces))
             ELSE Prefix(header, 1) \o SubSpacesHash(Suffix(header, 1))

\* SlurmRemoteExecutor.__init__ with the defaults of its signature
SlurmRemoteExecutorInit(host, password, map_tmp_dir, docker_executable, header, pvc) ==
    [host |-> host, port |-> DefaultPort, username |-> "root",
     password |-> password,
     workdir |-> "~/dflow/workflows/{{workflow.name}}/{{pod.name}}",
     map_tmp_dir |-> map_tmp_dir, docker_executable |-> docker_executable,
     header |-> SubSpacesHash(header), interval |-> DefaultInterval, pvc |-> pvc]

Passwords == {NoneVal, Some(""), Some("secret"), Some("it's"), Some("a'b'c")}

RemoteExecutors ==
    { SlurmRemoteExecutorInit("hpc", pw, m, d, "  #SBATCH -N 1", pvc) :
      pw \in Passwords, m \in BOOLEAN, d \in {NoneVal, Some("docker")},
      pvc \in {NoneVal, Some([name |-> "vol"])} }

\* RemoteExecutor.upload: the command that copies src to dst on the host
upload(self, src, dst) == "upload " \o src \o " " \o dst

\* UploadLine without the guard
UploadLineMut(self) ==
    upload(self, "slurm.sh", self.workdir \o "/slurm.sh") \o "\n"

\* the upload of slurm.sh and its guard
UploadLine(self) ==
    upload(self, "slurm.sh", self.workdir \o "/slurm.sh") \o " || exit 1\n"

\* the password line of param.yaml
PasswordLine(self) ==
    IF self.password # NoneVal
    THEN "echo 'password: " \o self.password[1] \o "' >> param.yaml\n"
    ELSE ""

\* SlurmRemoteExecutor.run
run(self, image, remote_command) ==
    LET map_cmd == IF self.map_tmp_dir
                   THEN "sed -i \"s#/tmp#$(pwd)/tmp#g\" script" ELSE ""
        first == IF self.docker_executable = NoneVal
                 THEN "echo '" \o self.header \o "\n" \o map_cmd \o "\n"
                      \o Join(remote_command) \o " script' > slurm.sh\n"
                 ELSE "echo '" \o self.header \o "\n" \o self.docker_executable[1]
                      \o " run -v$(pwd)/tmp:/tmp -v$(pwd)/script:/script -ti "
                      \o image \o " " \o Join(remote_command)
                      \o " /script' > slurm.sh\n"
    IN  first
        \o UploadLine(self)
        \o (IF self.pvc # NoneVal
            THEN "echo 'jobIdFile: /mnt/job_id.txt' >> param.yaml\n"
            ELSE "echo 'jobIdFile: /tmp/job_id.txt' >> param.yaml\n")
        \o "echo 'workdir: " \o self.workdir \o "' >> param.yaml\n"
        \o "echo 'scriptFile: slurm.sh' >> param.yaml\n"
        \o "echo 'interval: " \o Str(self.interval) \o "' >> param.yaml\n"
        \o "echo 'host: " \o self.host \o "' >> param.yaml\n"
        \o "echo 'port: " \o Str(self.port) \o "' >> param.yaml\n"
        \o "echo 'username: " \o self.username \o "' >> param.yaml\n"
        \o PasswordLine(self)
        \o "./bin/slurm param.yaml || exit 1\n"

----------------------------------------------------------------------------
(* The shell that runs the script: it reads one command at a time, up to    *)
(* the next newline outside single quotes, and exits at a command whose     *)
(* failure is followed by "|| exit 1", at an unterminated quote, or at the  *)
(* end of the script.                                                       *)

Ch(s, i) == SubSeq(s, i, i)

QuoteMarks(s) == {j \in 1..Len(s) : Ch(s, j) = "'"}

\* the positions of character c in s that are outside single quotes
Unquoted(s, c) ==
    LET Q == QuoteMarks(s)
    IN  {i \in 1..Len(s) :
            Ch(s, i) = c /\ Cardinality({q \in Q : q < i}) % 2 = 0}

\* the index of the first newline of s outside single quotes, 0 if none
ScanLine(s) ==
    LET N == Unquoted(s, "\n")
    IN  IF N = {} THEN 0 ELSE CHOOSE i \in N : \A j \in N : i <= j

Blanks(s) == Unquoted(s, " ")

NthOf(B, n) == CHOOSE i \in B : Cardinality({j \in B : j < i}) = n - 1

\* the words of a command: split at blanks outside single quotes
Words(line) ==
    LET B == Blanks(line)
        n == Cardinality(B)
        piece(k) == SubSeq(line,
                           IF k = 1 THEN 1 ELSE NthOf(B, k - 1) + 1,
                           IF k = n + 1 THEN Len(line) ELSE NthOf(B, k) - 1)
    IN  SelectSeq([k \in 1..(n + 1) |-> piece(k)], LAMBDA w : w # "")

\* quote removal
Unquote(words) == [k \in 1..Len(words) |-> ReplaceAll(words[k], "'", "")]

IndexOf(words, ops) ==
    LET hits == {k \in 1..Len(words) : words[k] \in ops}
    IN  IF hits = {} THEN 0 ELSE CHOOSE k \in hits : \A h \in hits : k <= h

\* a command "argv [> file | >> file] [|| alt]"
ParseCommand(line) ==
    LET raw == Words(line)
        orAt == IndexOf(raw, {"||"})
        main == IF orAt = 0 THEN raw ELSE SubSeq(raw, 1, orAt - 1)
        toAt == IndexOf(main, {">", ">>"})
    IN  [argv |-> Unquote(IF toAt = 0 THEN main ELSE SubSeq(main, 1, toAt - 1)),
         redirect |-> IF toAt = 0 THEN "" ELSE main[toAt],
         target |-> IF toAt = 0 THEN "" ELSE Unquote(main)[toAt + 1],
         alt |-> IF orAt = 0 THEN <<>>
                 ELSE Unquote(SubSeq(raw, orAt + 1, Len(raw)))]

Idle ==
    [status |-> "idle", rest |-> "", code |-> 0, last |-> 0,
     files |-> [f \in {"slurm.sh", "param.yaml"} |-> ""],
     uploaded |-> "no", submitted |-> "no"]

\* the shell after one more command of sh.rest; ok: whether an external
\* command (upload, ./bin/slurm) succeeds
ShellExec(s, ok) ==
    LET eol == ScanLine(s.rest)
        cmd == ParseCommand(Prefix(s.rest, eol - 1))
        rest == Suffix(s.rest, eol)
        name == cmd.argv[1]
        status == IF name = "echo" THEN 0
                  ELSE IF ok THEN 0 ELSE 1
        text == Join(Tail(cmd.argv)) \o "\n"
        files == IF name = "echo" /\ cmd.redirect = ">"
                 THEN [s.files EXCEPT ![cmd.target] = text]
                 ELSE IF name = "echo" /\ cmd.redirect = ">>"
                 THEN [s.files EXCEPT ![cmd.target] = @ \o text]
                 ELSE s.files
        ran == [s EXCEPT !.rest = rest, !.last = status, !.files = files,
                         !.uploaded = IF name = "upload"
                                      THEN (IF ok THEN "ok" ELSE "failed") ELSE @,
                         !.submitted = IF name = "./bin/slurm"
                                       THEN (IF ok THEN "ok" ELSE "failed") ELSE @]
    IN  IF s.rest = ""
        THEN [s EXCEPT !.status = "exited", !.code = s.last]
        ELSE IF eol = 0
        THEN [s EXCEPT !.status = "exited", !.code = 2]
        ELSE IF Len(cmd.argv) = 0
        THEN [s EXCEPT !.rest = rest]
        ELSE IF status # 0 /\ Len(cmd.alt) > 0 /\ cmd.alt[1] = "exit"
        THEN [ran EXCEPT !.status = "exited", !.code = 1]
        ELSE ran

----------------------------------------------------------------------------
(* Rendering and running a template *)

Init ==
    /\ pc = "init"
    /\ template \in Templates
    /\ executor \in Executors
    /\ composite = <<>>
    /\ inst = [i \in Instances |-> <<>>]
    /\ rexec = <<>>
    /\ script = ""
    /\ sh = Idle

Render ==
    /\ pc = "init"
    /\ composite' = render(executor, template)
    /\ pc' = "rendered"
    /\ UNCHANGED <<template, executor, inst, runVars>>

ExecuteStep(i, pod) ==
    /\ pc = "rendered"
    /\ Len(inst[i]) < Len(composite.steps)
    /\ \A j \in Instances : \A k \in 1..Len(inst[j]) : inst[j][k].pod # pod
    /\ inst' = [inst EXCEPT ![i] = Append(@, RunPod(composite, inst[i], pod))]
    /\ UNCHANGED <<pc, template, executor, composite, runVars>>

Next ==
    \/ Render
    \/ \E i \in Instances, pod \in PodNames : ExecuteStep(i, pod)

Spec == Init /\ [][Next]_vars

----------------------------------------------------------------------------
(* Building and running the submission script *)

InitRun ==
    /\ pc = "init"
    /\ template = <<>>
    /\ executor = <<>>
    /\ composite = <<>>
    /\ inst = <<>>
    /\ rexec \in RemoteExecutors
    /\ script = ""
    /\ sh = Idle

Run ==
    /\ sh.status = "idle"
    /\ script' = run(rexec, "image", <<"bash">>)
    /\ sh' = [sh EXCEPT !.status = "running", !.rest = script']
    /\ UNCHANGED <<rexec, renderVars>>

ShellStep(ok) ==
    /\ sh.status = "running"
    /\ sh' = ShellExec(sh, ok)
    /\ UNCHANGED <<rexec, script, renderVars>>

NextRun ==
    \/ Run
    \/ \E ok \in BOOLEAN : ShellStep(ok)

SpecRun == InitRun /\ [][NextRun]_vars

----------------------------------------------------------------------------
(* Properties of the rendered composite *)

Rendered == pc = "rendered"

StepNames(comp) == [i \in 1..Len(comp.steps) |-> comp.steps[i].name]

HasStep(comp, name) == \E i \in 1..Len(comp.steps) : comp.steps[i].name = name

StepNamed(comp, name) ==
    comp.steps[CHOOSE i \in 1..Len(comp.steps) : comp.steps[i].name = name]

\* C1: when the template declares an output, the composite has a
\* slurm-collect step and declares every output parameter and output
\* artifact of the template under the same name, each sourced from the
\* slurm-collect output of that name.
C1_OutputsFromCollect ==
    (Rendered /\ HasOutputs(template)) =>
        /\ HasStep(composite, "slurm-collect")
        /\ \A k \in Keys(template.outputs.parameters) :
              /\ k \in Keys(composite.outputs.parameters)
              /\ Lookup(composite.outputs.parameters, k).value_from_parameter
                    = <<"{{steps.slurm-collect.outputs.parameters." \o k \o "}}">>
              /\ k \in Keys(StepNamed(composite, "slurm-collect").template.outputs.parameters)
        /\ \A k \in Keys(template.outputs.artifacts) :
              /\ k \in Keys(composite.outputs.artifacts)
              /\ Lookup(composite.outputs.artifacts, k).from
                    = <<"{{steps.slurm-collect.outputs.artifacts." \o k \o "}}">>
              /\ k \in Keys(StepNamed(composite, "slurm-collect").template.outputs.artifacts)

C1_Witness ==
    /\ Rendered
    /\ Len(template.outputs.parameters) = 2
    /\ Len(template.outputs.artifacts) = 1
    /\ Len(composite.outputs.parameters) = 2

PrepareRef == "{{steps.slurm-prepare.outputs.parameters.dflow_vol_path}}"

Wired(step, ref) == {i \in 1..Len(step.parameters) : step.parameters[i].val = ref}

\* C2: when the template declares an input artifact, the composite has a
\* slurm-prepare step whose template declares the output parameter
\* dflow_vol_path, and exactly one argument of the slurm-run step is the
\* reference to that output; it is passed to an input parameter that the
\* slurm-run template declares.
C2_PrepareOutputWiredOnce ==
    (Rendered /\ HasInputArtifacts(template)) =>
        /\ HasStep(composite, "slurm-prepare")
        /\ "dflow_vol_path" \in
              Keys(StepNamed(composite, "slurm-prepare").template.outputs.parameters)
        /\ LET runStep == StepNamed(composite, "slurm-run")
           IN  /\ Cardinality(Wired(runStep, PrepareRef)) = 1
               /\ \A i \in Wired(runStep, PrepareRef) :
                     runStep.parameters[i].key \in Keys(runStep.template.inputs.parameters)
               /\ Distinct(KeySeq(runStep.parameters))

C2_Witness ==
    /\ Rendered
    /\ HasInputArtifacts(template)
    /\ KeySeq(template.inputs.parameters) = <<"dflow_vol_path", "n">>
    /\ Cardinality(Wired(StepNamed(composite, "slurm-run"), PrepareRef)) = 1

\* C3: when the template declares no input artifact, the composite has no
\* slurm-prepare step, slurm-run is its first step, the slurm-run template
\* declares exactly the template's input parameters, and each is passed the
\* composite's input of the same name.
C3_NoPrepareWithoutInputArtifacts ==
    (Rendered /\ ~HasInputArtifacts(template)) =>
        /\ ~HasStep(composite, "slurm-prepare")
        /\ composite.steps[1].name = "slurm-run"
        /\ composite.steps[1].template.inputs.parameters = template.inputs.parameters
        /\ KeySeq(composite.steps[1].parameters) = KeySeq(template.inputs.parameters)
        /\ \A i \in 1..Len(composite.steps[1].parameters) :
              LET arg == composite.steps[1].parameters[i]
              IN  /\ arg.val = "{{inputs.parameters." \o arg.key \o "}}"
                  /\ arg.key \in Keys(composite.inputs.parameters)

C3_Witness ==
    /\ Rendered
    /\ ~HasInputArtifacts(template)
    /\ KeySeq(template.inputs.parameters) = <<"n">>
    /\ KeySeq(composite.steps[1].template.inputs.parameters) = <<"n">>

\* C4: when the template declares no output, the composite has no
\* slurm-collect step, slurm-run is its last step, the slurm-run template
\* declares no dflow_vol_path output, and the composite declares no output.
C4_NoCollectWithoutOutputs ==
    (Rendered /\ ~HasOutputs(template)) =>
        /\ ~HasStep(composite, "slurm-collect")
        /\ composite.steps[Len(composite.steps)].name = "slurm-run"
        /\ "dflow_vol_path" \notin
              Keys(composite.steps[Len(composite.steps)].template.outputs.parameters)
        /\ composite.outputs.parameters = <<>>
        /\ composite.outputs.artifacts = <<>>

C4_Witness ==
    /\ Rendered
    /\ ~HasOutputs(template)
    /\ HasInputArtifacts(template)
    /\ StepNames(composite) = <<"slurm-prepare", "slurm-run">>

IsStepOutputRef(v) == Prefix(v, 8) = "{{steps."

\* ref names a declared output of one of the first n steps
DeclaredBy(comp, n, ref) ==
    \E j \in 1..n :
        \/ \E o \in Keys(comp.steps[j].template.outputs.parameters) :
              ref = "{{steps." \o comp.steps[j].name \o ".outputs.parameters." \o o \o "}}"
        \/ \E o \in Keys(comp.steps[j].template.outputs.artifacts) :
              ref = "{{steps." \o comp.steps[j].name \o ".outputs.artifacts." \o o \o "}}"

\* C5: the steps of the composite are prepare, run, collect in that order
\* (those that were built); every step argument that refers to a step
\* output names a declared output of an earlier step, and every composite
\* output names a declared output of a step of the composite.
C5_ReferencesResolve ==
    Rendered =>
        /\ StepNames(composite) \in
              { <<"slurm-run">>, <<"slurm-prepare", "slurm-run">>,
                <<"slurm-run", "slurm-collect">>,
                <<"slurm-prepare", "slurm-run", "slurm-collect">> }
        /\ \A i \in 1..Len(composite.steps) :
              \A a \in 1..Len(composite.steps[i].parameters) :
                 LET v == composite.steps[i].parameters[a].val
                 IN  IsStepOutputRef(v) => DeclaredBy(composite, i - 1, v)
        /\ \A o \in 1..Len(composite.outputs.parameters) :
              LET v == composite.outputs.parameters[o].val.value_from_parameter
              IN  v # NoneVal /\ DeclaredBy(composite, Len(composite.steps), v[1])
        /\ \A o \in 1..Len(composite.outputs.artifacts) :
              LET v == composite.outputs.artifacts[o].val.from
              IN  v # NoneVal /\ DeclaredBy(composite, Len(composite.steps), v[1])

C5_Witness ==
    /\ Rendered
    /\ StepNames(composite) = <<"slurm-prepare", "slurm-run", "slurm-collect">>
    /\ IsStepOutputRef(Lookup(composite.steps[2].parameters, "dflow_vol_path"))
    /\ IsStepOutputRef(Lookup(composite.steps[3].parameters, "dflow_vol_path"))
    /\ Len(composite.outputs.artifacts) = 1

RunManifest(comp) == StepNamed(comp, "slurm-run").template.resource[1].manifest

\* C6: the manifest of the slurm-run step has a spec.prepare stanza exactly
\* when the template declares an input artifact, and a spec.results stanza
\* exactly when it declares an output parameter or an output artifact.
C6_ManifestStanzas ==
    Rendered =>
        /\ ("prepare" \in DOMAIN RunManifest(composite).spec)
              <=> (Len(template.inputs.artifacts) >= 1)
        /\ ("results" \in DOMAIN RunManifest(composite).spec)
              <=> (Len(template.outputs.parameters) >= 1
                   \/ Len(template.outputs.artifacts) >= 1)

C6_Witness ==
    /\ Rendered
    /\ Len(template.inputs.parameters) >= 1
    /\ DOMAIN RunManifest(composite).spec = {"batch", "results"}

IsCalcExample ==
    /\ template.name = "calc"
    /\ template.inputs.artifacts =
          <<[key |-> "input.json", val |-> InputArtifact(NoneVal, "/in/input.json")]>>
    /\ template.outputs.artifacts =
          <<[key |-> "out.json", val |-> OutputArtifact(NoneVal, "/out/out.json", NoneVal)]>>

PrepareScriptOf(comp) == StepNamed(comp, "slurm-prepare").template.script

\* C9 as stated: for the calc example the prepare script contains
\* "mkdir -p /in" and "cp -r /in/input.json /workdir/in/input.json".
C9_AsStated ==
    (Rendered /\ IsCalcExample) =>
        /\ composite.name = "calc-slurm"
        /\ StepNames(composite) = <<"slurm-prepare", "slurm-run", "slurm-collect">>
        /\ Contains(PrepareScriptOf(composite), "mkdir -p /in")
        /\ Contains(PrepareScriptOf(composite),
                    "cp -r /in/input.json /workdir/in/input.json")

\* the directory part of each declared path of the model
DirectoryOf == ("/in/input.json" :> "/in") @@ ("data.txt" :> "")

\* C9, amended: for the calc example the composite is named calc-slurm, has
\* the steps slurm-prepare, slurm-run, slurm-collect, and the prepare script
\* contains "mkdir -p /workdir//in" and
\* "cp -r /in/input.json /workdir//in/input.json"; in general, for each input
\* artifact with path p the prepare script has the line "mkdir -p /workdir/"
\* followed by the directory of p and the line "cp -r p /workdir/" followed
\* by p.
C9_PrepareScript ==
    /\ (Rendered /\ IsCalcExample) =>
          /\ composite.name = "calc-slurm"
          /\ StepNames(composite) = <<"slurm-prepare", "slurm-run", "slurm-collect">>
          /\ Contains(PrepareScriptOf(composite), "mkdir -p /workdir//in\n")
          /\ Contains(PrepareScriptOf(composite),
                      "cp -r /in/input.json /workdir//in/input.json\n")
    /\ (Rendered /\ HasInputArtifacts(template)) =>
          \A i \in 1..Len(template.inputs.artifacts) :
             LET p == template.inputs.artifacts[i].val.path
             IN  Contains(PrepareScriptOf(composite),
                          "mkdir -p /workdir/" \o DirectoryOf[p] \o "\n"
                          \o "cp -r " \o p \o " /workdir/" \o p \o "\n")

C9_Witness ==
    /\ Rendered
    /\ IsCalcExample
    /\ template.outputs.parameters = <<>>
    /\ PrepareScriptOf(composite) =
          "mkdir -p /workdir//in\ncp -r /in/input.json /workdir//in/input.json\n"

----------------------------------------------------------------------------
(* Properties of the engine's runs *)

Ran(i, name) == \E k \in 1..Len(inst[i]) : inst[i][k].step = name

RunOf(i, name) == inst[i][CHOOSE k \in 1..Len(inst[i]) : inst[i][k].step = name]

\* the host paths an instance has created or mounted
HostPaths(i) ==
    UNION { {inst[i][k].volume, inst[i][k].prepareMount, inst[i][k].resultsMount}
            : k \in 1..Len(inst[i]) } \ {NoneVal}

\* C10: the prepare mount of the run manifest is the host path of the
\* prepare step's volume, the collect step's volume is the host path of the
\* run manifest's results mount, each is the pod-scoped path of the
\* producing pod, and two instances share no host path.
C10_HostPathsAgree ==
    /\ \A i \in Instances :
          /\ (Ran(i, "slurm-run") /\ HasInputArtifacts(template)) =>
                /\ RunOf(i, "slurm-run").prepareMount # NoneVal
                /\ RunOf(i, "slurm-run").prepareMount = RunOf(i, "slurm-prepare").volume
                /\ RunOf(i, "slurm-prepare").volume
                      = <<"/tmp/" \o RunOf(i, "slurm-prepare").pod>>
          /\ Ran(i, "slurm-collect") =>
                /\ RunOf(i, "slurm-collect").volume # NoneVal
                /\ RunOf(i, "slurm-collect").volume = RunOf(i, "slurm-run").resultsMount
                /\ RunOf(i, "slurm-run").resultsMount
                      = <<"/tmp/" \o RunOf(i, "slurm-run").pod>>
    /\ \A i, j \in Instances : i # j => HostPaths(i) \cap HostPaths(j) = {}

C10_Witness ==
    /\ Len(inst["a"]) = 3
    /\ Ran("a", "slurm-collect")
    /\ Ran("b", "slurm-prepare")
    /\ "dflow_vol_path" \in Keys(template.inputs.parameters)
    /\ Cardinality(HostPaths("a")) = 2
    /\ Cardinality(HostPaths("b")) = 1

----------------------------------------------------------------------------
(* Properties of the submission script *)

\* the lines of a file
LinesOf(text) ==
    LET N == {i \in 1..Len(text) : Ch(text, i) = "\n"}
        n == Cardinality(N)
    IN  [k \in 1..n |-> SubSeq(text,
                               IF k = 1 THEN 1 ELSE NthOf(N, k - 1) + 1,
                               NthOf(N, k) - 1)]

PasswordLinesOf(text) == SelectSeq(LinesOf(text), LAMBDA l : Prefix(l, 9) = "password:")

\* C7: once the script has run past its upload to its end, param.yaml has a
\* "password: <value>" line exactly when a password is configured, with the
\* configured password as the value; with no password configured the script
\* does not mention a password.
C7_PasswordLineIffConfigured ==
    /\ (sh.status = "exited" /\ sh.uploaded = "ok") =>
          PasswordLinesOf(sh.files["param.yaml"]) =
             IF rexec.password = NoneVal THEN <<>>
             ELSE <<"password: " \o rexec.password[1]>>
    /\ (sh.status # "idle" /\ rexec.password = NoneVal) =>
          ~Contains(script, "password")

\* C8: a failed upload ends the script at once with a non-zero exit, with no
\* line written to param.yaml and ./bin/slurm not invoked; a failed
\* ./bin/slurm ends it with a non-zero exit; the script exits 0 only when
\* both succeeded.
C8_FailFast ==
    /\ sh.uploaded = "failed" =>
          /\ sh.status = "exited" /\ sh.code # 0
          /\ sh.files["param.yaml"] = ""
          /\ sh.submitted = "no"
    /\ sh.submitted = "failed" => (sh.status = "exited" /\ sh.code # 0)
    /\ sh.submitted # "no" => sh.uploaded = "ok"
    /\ (sh.status = "exited" /\ sh.code = 0) =>
          (sh.uploaded = "ok" /\ sh.submitted = "ok")

C8_Witness ==
    /\ sh.status = "exited"
    /\ sh.uploaded = "failed"
    /\ sh.code = 1
    /\ sh.files["slurm.sh"] # ""

====
